---- MODULE Spec2Model ----
(***************************************************************************)
(* Work-group size planner of the SYCL reduction runtime (reduction.cpp):  *)
(* reduComputeWGSize, reduGetMaxWGSize and reduGetPreferredWGSize.         *)
(*                                                                         *)
(* One behaviour is one call.  Init draws the callee and its arguments     *)
(* (the queue's device, the configured overrides, the integer arguments)   *)
(* from bounded sets; the action of the callee runs its whole body: it     *)
(* sets the returned value, the by-reference out-parameter and appends     *)
(* the lines the body writes to std::cout.                                 *)
(*                                                                         *)
(* The module also holds the coarse-grained coherency test                 *)
(* (memadvise_hip_coherency.cpp): main on the host and the kernels it      *)
(* submits, interleaved step by step over the shared int (CoherencySpec),  *)
(* and NVPTXTargetInfo::getTargetDefines (TargetDefinesSpec).              *)
(***************************************************************************)
EXTENDS Integers, Sequences, FiniteSets, TLC

\* a planner call; cout is the process's std::cout
VARIABLES pc, call, ret, NWorkGroups, cout

\* the coherency test: the device's usm_shared_allocations, the shared
\* int *ptr, where main and the submitted kernel are, the kernel's local
\* val, the value main loaded for '*ptr += 1', the whole seconds since
\* 'start', and main's locals coherent and expected
VARIABLES usmShared, ptr, hostPc, krnlPc, val, hostTmp, elapsed, coherent,
          expected

\* NVPTXTargetInfo::getTargetDefines: the language options, whether the
\* target has a HostTarget, its GPU, the macros given to the MacroBuilder
\* and where the call is
VARIABLES Opts, HostTarget, GPU, Builder, definesPc

plannerVars == <<pc, call, ret, NWorkGroups>>

nvptxVars == <<Opts, HostTarget, GPU, Builder, definesPc>>

testVars ==
    <<usmShared, ptr, hostPc, krnlPc, val, hostTmp, elapsed, coherent,
      expected>>

vars == <<plannerVars, cout, testVars, nvptxVars>>

(***************************************************************************)
(* Bounds of the model.                                                    *)
(***************************************************************************)
\* width of size_t in the model (the arithmetic below wraps modulo 2^SizeTBits)
SizeTBits == 16
\* largest NWorkItems argument of reduComputeWGSize
MaxWorkItems == 48
\* largest MaxWGSize argument of reduComputeWGSize
MaxWGSizeArg == 16
\* largest info::device::max_work_group_size of a device
MaxDevWGSize == 8
\* largest info::device::local_mem_size of a device
MaxLocalMem == 17
\* largest LocalMemBytesPerWorkItem argument
MaxPerWI == 2
\* max_registers_per_work_group ranges over 255 * k + {0, 254}, k <= MaxRegsK
MaxRegsK == 2
\* largest SYCL_REDUCTION_PREFERRED_WORKGROUP_SIZE value of a device class
MaxOverride == 2
\* largest info::kernel_device_specific::work_group_size of a kernel
MaxKernelWGSize == 3
\* largest info::device::max_compute_units of a device
MaxComputeUnits == 4

(***************************************************************************)
(* size_t arithmetic.                                                      *)
(***************************************************************************)
SizeTModulus == 2 ^ SizeTBits

SizeT(x) == x % SizeTModulus

Min(a, b) == IF a < b THEN a ELSE b

RECURSIVE BitAnd(_, _)
BitAnd(a, b) ==
    IF a = 0 \/ b = 0
    THEN 0
    ELSE (a % 2) * (b % 2) + 2 * BitAnd(a \div 2, b \div 2)

\* return (N & (N - 1)) == 0;
IsPowerOfTwo(N) == BitAnd(N, SizeT(N - 1)) = 0

(***************************************************************************)
(* Variants of reduComputeWGSize with one plausible slip each.             *)
(***************************************************************************)
\* the trailing NWorkGroups++ of the non-uniform branch is missing
reduComputeWGSize_NoExtraGroup(NWorkItems, MaxWGSize) ==
    IF NWorkItems <= MaxWGSize
    THEN [WGSize |-> NWorkItems, NWorkGroups |-> 1]
    ELSE LET Rem == NWorkItems % MaxWGSize
             NWorkGroupsAlt == NWorkItems \div Rem
             RemAlt == NWorkItems % Rem
         IN  IF Rem /= 0 /\ RemAlt = 0 /\ NWorkGroupsAlt <= MaxWGSize
             THEN [WGSize |-> Rem, NWorkGroups |-> NWorkGroupsAlt]
             ELSE [WGSize |-> MaxWGSize,
                   NWorkGroups |-> NWorkItems \div MaxWGSize]

\* the alternative partition is stored with size and count exchanged
reduComputeWGSize_AltSwapped(NWorkItems, MaxWGSize) ==
    IF NWorkItems <= MaxWGSize
    THEN [WGSize |-> NWorkItems, NWorkGroups |-> 1]
    ELSE LET Rem == NWorkItems % MaxWGSize
             NWorkGroupsAlt == NWorkItems \div Rem
             RemAlt == NWorkItems % Rem
         IN  IF Rem /= 0
             THEN IF RemAlt = 0 /\ NWorkGroupsAlt <= MaxWGSize
                  THEN [WGSize |-> NWorkGroupsAlt, NWorkGroups |-> Rem]
                  ELSE [WGSize |-> MaxWGSize,
                        NWorkGroups |-> SizeT((NWorkItems \div MaxWGSize) + 1)]
             ELSE [WGSize |-> MaxWGSize,
                   NWorkGroups |-> NWorkItems \div MaxWGSize]

\* the test 'NWorkGroupsAlt <= MaxWGSize' is missing
reduComputeWGSize_AltUnchecked(NWorkItems, MaxWGSize) ==
    IF NWorkItems <= MaxWGSize
    THEN [WGSize |-> NWorkItems, NWorkGroups |-> 1]
    ELSE LET Rem == NWorkItems % MaxWGSize
             NWorkGroupsAlt == NWorkItems \div Rem
             RemAlt == NWorkItems % Rem
         IN  IF Rem /= 0
             THEN IF RemAlt = 0
                  THEN [WGSize |-> Rem, NWorkGroups |-> NWorkGroupsAlt]
                  ELSE [WGSize |-> MaxWGSize,
                        NWorkGroups |-> SizeT((NWorkItems \div MaxWGSize) + 1)]
             ELSE [WGSize |-> MaxWGSize,
                   NWorkGroups |-> NWorkItems \div MaxWGSize]

\* the single-group branch forgets 'WGSize = NWorkItems'
reduComputeWGSize_SingleKeepsMax(NWorkItems, MaxWGSize) ==
    IF NWorkItems <= MaxWGSize
    THEN [WGSize |-> MaxWGSize, NWorkGroups |-> 1]
    ELSE LET Rem == NWorkItems % MaxWGSize
             NWorkGroupsAlt == NWorkItems \div Rem
             RemAlt == NWorkItems % Rem
         IN  IF Rem /= 0
             THEN IF RemAlt = 0 /\ NWorkGroupsAlt <= MaxWGSize
                  THEN [WGSize |-> Rem, NWorkGroups |-> NWorkGroupsAlt]
                  ELSE [WGSize |-> MaxWGSize,
                        NWorkGroups |-> SizeT((NWorkItems \div MaxWGSize) + 1)]
             ELSE [WGSize |-> MaxWGSize,
                   NWorkGroups |-> NWorkItems \div MaxWGSize]

\* the non-uniform branch adds a group also when none is needed: the
\* increment is not guarded by 'Rem != 0'
reduComputeWGSize_AlwaysExtraGroup(NWorkItems, MaxWGSize) ==
    IF NWorkItems <= MaxWGSize
    THEN [WGSize |-> NWorkItems, NWorkGroups |-> 1]
    ELSE LET Rem == NWorkItems % MaxWGSize
             NWorkGroupsAlt == NWorkItems \div Rem
             RemAlt == NWorkItems % Rem
         IN  IF Rem /= 0 /\ RemAlt = 0 /\ NWorkGroupsAlt <= MaxWGSize
             THEN [WGSize |-> Rem, NWorkGroups |-> NWorkGroupsAlt]
             ELSE [WGSize |-> MaxWGSize,
                   NWorkGroups |-> SizeT((NWorkItems \div MaxWGSize) + 1)]

(***************************************************************************)
(* reduComputeWGSize(NWorkItems, MaxWGSize, NWorkGroups&): the returned    *)
(* WGSize and the value stored through NWorkGroups.                        *)
(***************************************************************************)
reduComputeWGSize(NWorkItems, MaxWGSize) ==
    IF NWorkItems <= MaxWGSize
    THEN [WGSize |-> NWorkItems, NWorkGroups |-> 1]
    ELSE LET Rem == NWorkItems % MaxWGSize
             NWorkGroupsAlt == NWorkItems \div Rem
             RemAlt == NWorkItems % Rem
         IN  IF Rem /= 0
             THEN IF RemAlt = 0 /\ NWorkGroupsAlt <= MaxWGSize
                  THEN [WGSize |-> Rem, NWorkGroups |-> NWorkGroupsAlt]
                  ELSE [WGSize |-> MaxWGSize,
                        NWorkGroups |-> SizeT((NWorkItems \div MaxWGSize) + 1)]
             ELSE [WGSize |-> MaxWGSize,
                   NWorkGroups |-> NWorkItems \div MaxWGSize]

\* the two lines reduComputeWGSize writes to std::cout
ComputeWGSizeOutput(MaxWGSize, WGSize) ==
    << <<"Maximum WorkGroup Size: ", MaxWGSize>>,
       <<"Compute WorkGroup Size: ", WGSize>> >>

(***************************************************************************)
(* Devices, as far as the planner queries them, and the configuration.     *)
(***************************************************************************)
DeviceTypes == {"cpu", "gpu", "accelerator", "custom"}

Backends == {"opencl", "ext_oneapi_cuda"}

\* values of ext::codeplay::experimental::info::device::max_registers_per_work_group
RegsValues == {255 * k + d : k \in 0..MaxRegsK, d \in {0, 254}}

\* a CUDA device is a GPU; only the CUDA backend is asked for its registers
Devices ==
    {d \in [device_type : DeviceTypes,
            backend : Backends,
            max_work_group_size : 1..MaxDevWGSize,
            local_mem_size : 0..MaxLocalMem,
            max_registers_per_work_group : RegsValues] :
        IF d.backend = "ext_oneapi_cuda"
        THEN d.device_type = "gpu"
        ELSE d.max_registers_per_work_group = 0}

\* a std::shared_ptr<queue_impl>: << >> is nullptr, <<d>> a queue on device d
Queues == {<< >>} \cup {<<d>> : d \in Devices}

\* SYCLConfig<SYCL_REDUCTION_PREFERRED_WORKGROUP_SIZE>::get per device type
\* (0: not configured)
Configs ==
    [cpu : 0..MaxOverride, gpu : 0..MaxOverride, accelerator : 0..MaxOverride]

(***************************************************************************)
(* reduGetMaxWGSize(Queue, LocalMemBytesPerWorkItem), device-level.        *)
(***************************************************************************)
\* constexpr uint8_t MaxRegsPerWI{255};
MaxRegsPerWI == 255

\* WGSizePerMem = MaxWGSize (the factor 2 is missing)
InitialWGSizePerMem_NoDouble(MaxWGSize) == MaxWGSize

\* size_t WGSizePerMem = MaxWGSize * 2;
InitialWGSizePerMem(MaxWGSize) == SizeT(MaxWGSize * 2)

\* WGSizePerMem after the 'if (LocalMemBytesPerWorkItem != 0)' block
WGSizePerMem(Dev, LocalMemBytesPerWorkItem) ==
    IF LocalMemBytesPerWorkItem /= 0
    THEN LET PerMem == Dev.local_mem_size \div LocalMemBytesPerWorkItem
         IN  IF BitAnd(PerMem, SizeT(PerMem - 1)) /= 0
             THEN SizeT(PerMem - 1)
             ELSE PerMem
    ELSE InitialWGSizePerMem(Dev.max_work_group_size)

\* WGSize after the memory block and the conservative halving
MemLimitedWGSize(Dev, LocalMemBytesPerWorkItem) ==
    LET MaxWGSize == Dev.max_work_group_size
        PerMem == WGSizePerMem(Dev, LocalMemBytesPerWorkItem)
        WGSize == IF LocalMemBytesPerWorkItem /= 0
                  THEN Min(PerMem, MaxWGSize)
                  ELSE MaxWGSize
    IN  IF WGSize >= 4 /\ PerMem < SizeT(MaxWGSize * 2)
        THEN WGSize \div 2
        ELSE WGSize

\* while (NewWGSize * MaxRegsPerWI > MaxRegsPerWG || !IsPowerOfTwo(NewWGSize))
\*   NewWGSize--;
RECURSIVE RegsClampLoop(_, _)
RegsClampLoop(NewWGSize, MaxRegsPerWG) ==
    IF SizeT(NewWGSize * MaxRegsPerWI) > MaxRegsPerWG
       \/ ~IsPowerOfTwo(NewWGSize)
    THEN RegsClampLoop(SizeT(NewWGSize - 1), MaxRegsPerWG)
    ELSE NewWGSize

\* the local NewWGSize at the end of reduGetMaxWGSize
ClampedNewWGSize(Dev, LocalMemBytesPerWorkItem) ==
    LET WGSize == MemLimitedWGSize(Dev, LocalMemBytesPerWorkItem)
    IN  IF Dev.backend = "ext_oneapi_cuda"
        THEN RegsClampLoop(WGSize, Dev.max_registers_per_work_group)
        ELSE WGSize

\* 'return WGSize;': the value before the register workaround
reduGetMaxWGSize(Dev, LocalMemBytesPerWorkItem) ==
    MemLimitedWGSize(Dev, LocalMemBytesPerWorkItem)

\* the three lines reduGetMaxWGSize writes to std::cout
GetMaxWGSizeOutput(Dev, LocalMemBytesPerWorkItem) ==
    << <<"GetMaxWGSize from device query.">>,
       <<"WGSize before conservative regs workaround: ",
         MemLimitedWGSize(Dev, LocalMemBytesPerWorkItem)>>,
       <<"WGSize after conservative regs workaround: ",
         ClampedNewWGSize(Dev, LocalMemBytesPerWorkItem)>> >>

(***************************************************************************)
(* reduGetPreferredWGSize(Queue, LocalMemBytesPerWorkItem).                *)
(***************************************************************************)
\* 'return 32;' for a null queue
NullQueueWGSize == 32

\* 'return 16;' for a CPU device without override
CPUDefaultWGSize == 16

\* the GPU override is applied to every non-CPU device
PreferredBranch_OverrideAnyDevice(Queue, Config) ==
    IF Queue = << >> THEN "null"
    ELSE LET Dev == Queue[1]
         IN  IF Dev.device_type = "cpu"
             THEN IF Config.cpu = 0 THEN "cpu_default" ELSE "cpu_override"
             ELSE IF Config.gpu /= 0
                  THEN "gpu_override"
                  ELSE IF Config.accelerator /= 0
                       THEN "accelerator_override"
                       ELSE "max"

\* the branch reduGetPreferredWGSize returns from
PreferredBranch(Queue, Config) ==
    IF Queue = << >> THEN "null"
    ELSE LET Dev == Queue[1]
         IN  IF Dev.device_type = "cpu"
             THEN IF Config.cpu = 0 THEN "cpu_default" ELSE "cpu_override"
             ELSE IF Dev.device_type = "gpu" /\ Config.gpu /= 0
                  THEN "gpu_override"
                  ELSE IF Dev.device_type = "accelerator"
                          /\ Config.accelerator /= 0
                       THEN "accelerator_override"
                       ELSE "max"

reduGetPreferredWGSize(Queue, LocalMemBytesPerWorkItem, Config) ==
    LET Branch == PreferredBranch(Queue, Config)
        Dev == Queue[1]
    IN  CASE Branch = "null" -> NullQueueWGSize
          [] Branch = "cpu_default" -> CPUDefaultWGSize
          [] Branch = "cpu_override" ->
                Min(Config.cpu, Dev.max_work_group_size)
          [] Branch = "gpu_override" ->
                Min(Config.gpu, Dev.max_work_group_size)
          [] Branch = "accelerator_override" ->
                Min(Config.accelerator, Dev.max_work_group_size)
          [] Branch = "max" ->
                reduGetMaxWGSize(Dev, LocalMemBytesPerWorkItem)

\* the lines reduGetPreferredWGSize writes to std::cout, those of the
\* reduGetMaxWGSize call it ends with included
GetPreferredWGSizeOutput(Queue, LocalMemBytesPerWorkItem, Config) ==
    << <<"reduGetPreferredWGSize check">> >>
    \o (IF PreferredBranch(Queue, Config) = "max"
        THEN GetMaxWGSizeOutput(Queue[1], LocalMemBytesPerWorkItem)
        ELSE << >>)

(***************************************************************************)
(* reduGetMaxWGSize(Queue, Kernel, LocalMemBytesPerWorkItem), the overload *)
(* that asks the kernel first.                                             *)
(***************************************************************************)
\* the fallback goes to the preferred-size query (no override configured)
reduGetMaxWGSizeKernel_Preferred(Dev, KernelWGSize, LocalMemBytesPerWorkItem) ==
    IF KernelWGSize = 0
    THEN reduGetPreferredWGSize(<<Dev>>, LocalMemBytesPerWorkItem,
                                [cpu |-> 0, gpu |-> 0, accelerator |-> 0])
    ELSE KernelWGSize

\* KernelWGSize is Kernel.get_info<kernel_device_specific::work_group_size>
reduGetMaxWGSizeKernel(Dev, KernelWGSize, LocalMemBytesPerWorkItem) ==
    IF KernelWGSize = 0
    THEN reduGetMaxWGSize(Dev, LocalMemBytesPerWorkItem)
    ELSE KernelWGSize

\* the lines the kernel overload writes to std::cout, those of the
\* device-level call it falls back to included
GetMaxWGSizeKernelOutput(Dev, KernelWGSize, LocalMemBytesPerWorkItem) ==
    << <<"GetMaxWGSize from kernel query.">> >>
    \o (IF KernelWGSize = 0
        THEN GetMaxWGSizeOutput(Dev, LocalMemBytesPerWorkItem)
        ELSE << <<"[reduGetMaxWGSize] MaxWGSize: ", KernelWGSize>> >>)

(***************************************************************************)
(* reduGetMaxNumConcurrentWorkGroups(Queue).                               *)
(***************************************************************************)
\* 'return 8;' for a null queue
NullQueueNumWorkGroups == 8

\* the device as far as reduGetMaxNumConcurrentWorkGroups queries it
ComputeUnitDevices ==
    [device_type : DeviceTypes,
     max_compute_units : 1..MaxComputeUnits,
     host_unified_memory : BOOLEAN]

reduGetMaxNumConcurrentWorkGroups(Queue) ==
    IF Queue = << >>
    THEN NullQueueNumWorkGroups
    ELSE LET Dev == Queue[1]
             NumThreads == Dev.max_compute_units
         IN  IF Dev.device_type = "gpu" /\ Dev.host_unified_memory
             THEN NumThreads * 8
             ELSE NumThreads

(***************************************************************************)
(* 'Queue->get_device()' on a null queue is undefined behaviour: the       *)
(* process dies, or the call goes on with whatever it read and returns an  *)
(* arbitrary size.                                                         *)
(***************************************************************************)
ArbitrarySizes == 0..MaxDevWGSize

NullQueueDereference ==
    \/ pc' = "crashed" /\ ret' = ret
    \/ pc' = "done" /\ ret' \in ArbitrarySizes

(***************************************************************************)
(* The calls a behaviour can make.                                         *)
(***************************************************************************)
ComputeWGSizeCalls ==
    [fn : {"reduComputeWGSize"},
     NWorkItems : 0..MaxWorkItems,
     MaxWGSize : 1..MaxWGSizeArg]
    \cup
    {[fn |-> "reduComputeWGSize", NWorkItems |-> p[1], MaxWGSize |-> p[2]] :
        p \in {<<160, 128>>, <<130, 128>>, <<200, 64>>}}

\* the graph API plans with a handler that has no queue: Queue may be null
GetMaxWGSizeCalls ==
    [fn : {"reduGetMaxWGSize"},
     Queue : Queues,
     LocalMemBytesPerWorkItem : 0..MaxPerWI]

GetMaxWGSizeKernelCalls ==
    [fn : {"reduGetMaxWGSizeKernel"},
     Queue : Queues,
     KernelWGSize : 0..MaxKernelWGSize,
     LocalMemBytesPerWorkItem : 0..MaxPerWI]

GetMaxNumConcurrentWorkGroupsCalls ==
    [fn : {"reduGetMaxNumConcurrentWorkGroups"},
     Queue : {<< >>} \cup {<<d>> : d \in ComputeUnitDevices}]

GetPreferredWGSizeCalls ==
    [fn : {"reduGetPreferredWGSize"},
     Queue : Queues,
     LocalMemBytesPerWorkItem : 0..MaxPerWI,
     Config : Configs]

Calls ==
    ComputeWGSizeCalls \cup GetMaxWGSizeCalls \cup GetPreferredWGSizeCalls
    \cup GetMaxWGSizeKernelCalls \cup GetMaxNumConcurrentWorkGroupsCalls

\* the coherency test is not running
TestNotRunning ==
    /\ usmShared = FALSE
    /\ ptr = 0
    /\ hostPc = "none"
    /\ krnlPc = "none"
    /\ val = 0
    /\ hostTmp = 0
    /\ elapsed = 0
    /\ coherent = FALSE
    /\ expected = 0

\* getTargetDefines is not called
TargetDefinesNotCalled ==
    /\ Opts = [CUDAIsDevice |-> FALSE, OpenMPIsTargetDevice |-> FALSE,
               SYCLIsDevice |-> FALSE]
    /\ HostTarget = FALSE
    /\ GPU = "UNUSED"
    /\ Builder = << >>
    /\ definesPc = "none"

Init ==
    /\ pc = "call"
    /\ call \in Calls
    /\ ret = 0
    /\ NWorkGroups = 0
    /\ cout = << >>
    /\ TestNotRunning
    /\ TargetDefinesNotCalled

CallComputeWGSize ==
    /\ pc = "call"
    /\ call.fn = "reduComputeWGSize"
    /\ LET r == reduComputeWGSize(call.NWorkItems, call.MaxWGSize)
       IN  /\ ret' = r.WGSize
           /\ NWorkGroups' = r.NWorkGroups
           /\ cout' = cout \o ComputeWGSizeOutput(call.MaxWGSize, r.WGSize)
    /\ pc' = "done"
    /\ UNCHANGED <<call, testVars, nvptxVars>>

CallGetMaxWGSize ==
    /\ pc = "call"
    /\ call.fn = "reduGetMaxWGSize"
    /\ IF call.Queue = << >>
       THEN /\ cout' = cout \o << <<"GetMaxWGSize from device query.">> >>
            /\ NullQueueDereference
       ELSE /\ ret' = reduGetMaxWGSize(call.Queue[1],
                                       call.LocalMemBytesPerWorkItem)
            /\ cout' = cout \o GetMaxWGSizeOutput(call.Queue[1],
                                                  call.LocalMemBytesPerWorkItem)
            /\ pc' = "done"
    /\ UNCHANGED <<call, NWorkGroups, testVars, nvptxVars>>

CallGetMaxWGSizeKernel ==
    /\ pc = "call"
    /\ call.fn = "reduGetMaxWGSizeKernel"
    /\ IF call.Queue = << >>
       THEN /\ cout' = cout \o << <<"GetMaxWGSize from kernel query.">> >>
            /\ NullQueueDereference
       ELSE /\ ret' = reduGetMaxWGSizeKernel(call.Queue[1], call.KernelWGSize,
                                             call.LocalMemBytesPerWorkItem)
            /\ cout' = cout \o GetMaxWGSizeKernelOutput(
                                    call.Queue[1], call.KernelWGSize,
                                    call.LocalMemBytesPerWorkItem)
            /\ pc' = "done"
    /\ UNCHANGED <<call, NWorkGroups, testVars, nvptxVars>>

CallGetMaxNumConcurrentWorkGroups ==
    /\ pc = "call"
    /\ call.fn = "reduGetMaxNumConcurrentWorkGroups"
    /\ ret' = reduGetMaxNumConcurrentWorkGroups(call.Queue)
    /\ pc' = "done"
    /\ UNCHANGED <<call, NWorkGroups, cout, testVars, nvptxVars>>

CallGetPreferredWGSize ==
    /\ pc = "call"
    /\ call.fn = "reduGetPreferredWGSize"
    /\ ret' = reduGetPreferredWGSize(call.Queue,
                                     call.LocalMemBytesPerWorkItem,
                                     call.Config)
    /\ cout' = cout \o GetPreferredWGSizeOutput(call.Queue,
                                                call.LocalMemBytesPerWorkItem,
                                                call.Config)
    /\ pc' = "done"
    /\ UNCHANGED <<call, NWorkGroups, testVars, nvptxVars>>

Next ==
    \/ CallComputeWGSize
    \/ CallGetMaxWGSize
    \/ CallGetPreferredWGSize
    \/ CallGetMaxWGSizeKernel
    \/ CallGetMaxNumConcurrentWorkGroups

Spec == Init /\ [][Next]_vars

(***************************************************************************)
(* Properties of reduComputeWGSize.                                        *)
(***************************************************************************)
ComputeDone == pc = "done" /\ call.fn = "reduComputeWGSize"

\* the remainder NWorkItems % MaxWGSize of a finished reduComputeWGSize call
CallRem == call.NWorkItems % call.MaxWGSize

\* the alternative uniform partition (group size = remainder) is adopted
AltAdopted ==
    /\ CallRem /= 0
    /\ call.NWorkItems % CallRem = 0
    /\ call.NWorkItems \div CallRem <= call.MaxWGSize

\* C1: for workItems > 0 and maxWorkGroupSize > 0 the sizing covers all
\* work-items (workGroupSize * workGroupCount >= workItems), the group size
\* does not exceed maxWorkGroupSize and there is at least one group.
C1_SizingCovers ==
    (ComputeDone /\ call.NWorkItems > 0 /\ call.MaxWGSize > 0) =>
        /\ ret * NWorkGroups >= call.NWorkItems
        /\ ret <= call.MaxWGSize
        /\ NWorkGroups >= 1

\* a finished call of the non-uniform branch: the last group is partly filled
C1_Witness ==
    /\ ComputeDone
    /\ call.NWorkItems > call.MaxWGSize
    /\ ret = call.MaxWGSize
    /\ ret * NWorkGroups > call.NWorkItems

\* C6: with workItems > maxWorkGroupSize and a non-zero remainder that
\* divides workItems into at most maxWorkGroupSize groups, the result is
\* exactly (remainder, workItems / remainder); (160,128) gives (32,5),
\* (130,128) gives (2,65) and (200,64) gives (8,25).
C6_AlternativeAdopted ==
    ComputeDone =>
        /\ (call.NWorkItems > call.MaxWGSize /\ AltAdopted) =>
               /\ ret = CallRem
               /\ NWorkGroups = call.NWorkItems \div CallRem
        /\ (call.NWorkItems = 160 /\ call.MaxWGSize = 128) =>
               (ret = 32 /\ NWorkGroups = 5)
        /\ (call.NWorkItems = 130 /\ call.MaxWGSize = 128) =>
               (ret = 2 /\ NWorkGroups = 65)
        /\ (call.NWorkItems = 200 /\ call.MaxWGSize = 64) =>
               (ret = 8 /\ NWorkGroups = 25)

\* the finished call (160, 128), which adopts five groups of 32
C6_Witness ==
    /\ ComputeDone
    /\ call.NWorkItems = 160
    /\ call.MaxWGSize = 128
    /\ AltAdopted
    /\ ret = 32
    /\ NWorkGroups = 5

\* C7: with workItems > maxWorkGroupSize, whenever the alternative is not
\* adopted the result is maxWorkGroupSize and the ceiling of
\* workItems / maxWorkGroupSize: the floor count when the remainder is 0 and
\* the floor count plus 1 otherwise.
C7_MaxSizeCeilCount ==
    (ComputeDone /\ call.NWorkItems > call.MaxWGSize /\ ~AltAdopted) =>
        /\ ret = call.MaxWGSize
        /\ NWorkGroups =
              (call.NWorkItems + call.MaxWGSize - 1) \div call.MaxWGSize
        /\ NWorkGroups =
              (call.NWorkItems \div call.MaxWGSize)
                  + (IF CallRem = 0 THEN 0 ELSE 1)

\* a finished call whose remainder divides workItems into too many groups
C7_Witness ==
    /\ ComputeDone
    /\ call.NWorkItems > call.MaxWGSize
    /\ CallRem /= 0
    /\ call.NWorkItems % CallRem = 0
    /\ call.NWorkItems \div CallRem > call.MaxWGSize
    /\ ret = call.MaxWGSize
    /\ NWorkGroups = (call.NWorkItems \div call.MaxWGSize) + 1

\* C8: whenever 0 < workItems <= maxWorkGroupSize the result is one group
\* of workItems work-items.
C8_SingleGroup ==
    (ComputeDone /\ 0 < call.NWorkItems
                 /\ call.NWorkItems <= call.MaxWGSize) =>
        (NWorkGroups = 1 /\ ret = call.NWorkItems)

\* a finished call with workItems equal to maxWorkGroupSize
C8_Witness ==
    /\ ComputeDone
    /\ call.NWorkItems = call.MaxWGSize
    /\ NWorkGroups = 1
    /\ ret = call.MaxWGSize

(***************************************************************************)
(* Properties of the device-level reduGetMaxWGSize.                        *)
(***************************************************************************)
GetMaxDone ==
    pc = "done" /\ call.fn = "reduGetMaxWGSize" /\ call.Queue /= << >>

\* n is a power of two: 1, 2, 4, ...
IsPow2(n) == \E k \in 0..SizeTBits : n = 2 ^ k

\* C2: for every device and every localMemoryBytesPerWorkItem >= 0, also
\* one larger than the device's local memory, the size returned by the
\* device-level computeMaxWorkGroupSize is >= 1 and <= maxWorkGroupSize.
C2_MaxWGSizeInRange ==
    GetMaxDone =>
        /\ ret >= 1
        /\ ret <= call.Queue[1].max_work_group_size

\* C4: on the CUDA backend the returned size w has passed the
\* register-pressure clamp: w * 255 <= maxRegistersPerGroup and w is a
\* power of two.
C4_RegsClampApplied ==
    (GetMaxDone /\ call.Queue[1].backend = "ext_oneapi_cuda") =>
        /\ ret * MaxRegsPerWI <= call.Queue[1].max_registers_per_work_group
        /\ IsPow2(ret)

\* C9: with localMemoryBytesPerWorkItem == 0 the result is exactly the
\* device's maxWorkGroupSize, whatever the local memory size: no halving.
C9_NoMemoryNoHalving ==
    (GetMaxDone /\ call.LocalMemBytesPerWorkItem = 0) =>
        ret = call.Queue[1].max_work_group_size

\* a finished call without local memory use on a device whose maximum is
\* large enough to be halved and whose local memory is smaller than that
C9_Witness ==
    /\ GetMaxDone
    /\ call.LocalMemBytesPerWorkItem = 0
    /\ call.Queue[1].max_work_group_size >= 4
    /\ call.Queue[1].local_mem_size < call.Queue[1].max_work_group_size
    /\ ret = call.Queue[1].max_work_group_size

\* the reference of C10: m = localMemoryBytes / perWorkItem, decremented by
\* 1 (in unsigned arithmetic) when m is not a power of two; c = min(m, max);
\* c / 2 when c >= 4 and m < 2 * max, c otherwise
C10_Reference(localMemoryBytes, perWorkItem, maxWorkGroupSize) ==
    LET m0 == localMemoryBytes \div perWorkItem
        m == IF IsPow2(m0) THEN m0 ELSE SizeT(m0 - 1)
        c == Min(m, maxWorkGroupSize)
    IN  IF c >= 4 /\ m < 2 * maxWorkGroupSize THEN c \div 2 ELSE c

\* C10: for localMemoryBytesPerWorkItem > 0 computeMaxWorkGroupSize returns
\* the value of the reference: the memory-bound size, less 1 when it is not
\* a power of two, capped by maxWorkGroupSize and halved when the cap is
\* >= 4 and the memory-bound size is below twice maxWorkGroupSize.
C10_MatchesReference ==
    (GetMaxDone /\ call.LocalMemBytesPerWorkItem > 0) =>
        ret = C10_Reference(call.Queue[1].local_mem_size,
                            call.LocalMemBytesPerWorkItem,
                            call.Queue[1].max_work_group_size)

(***************************************************************************)
(* Properties of reduGetPreferredWGSize.                                   *)
(***************************************************************************)
GetPreferredDone == pc = "done" /\ call.fn = "reduGetPreferredWGSize"

\* C3: on a CPU device the preferred size is 16 without an override and
\* the override otherwise, in both cases clamped to the device maximum: it
\* never exceeds maxWorkGroupSize, also when that is below 16.
C3_CPUPreferredClamped ==
    (GetPreferredDone /\ call.Queue /= << >>
                      /\ call.Queue[1].device_type = "cpu") =>
        /\ ret <= call.Queue[1].max_work_group_size
        /\ ret = Min(IF call.Config.cpu = 0
                     THEN CPUDefaultWGSize
                     ELSE call.Config.cpu,
                     call.Queue[1].max_work_group_size)

(***************************************************************************)
(* Effects of the planner operations.                                      *)
(***************************************************************************)
\* C5: the planner operations have no side effects: a call performs no
\* I/O and leaves the shared state, the process output stream included,
\* as it was; only its result and out-parameter change.
C5_NoSideEffects == [][cout' = cout]_vars

(***************************************************************************)
(* Planner queries without a device context.                               *)
(***************************************************************************)
\* C11: with a null queue every planner query that takes a queue returns a
\* fixed conservative default instead of failing: the preferred size query
\* 32, the concurrent work-group estimate 8, and the max work-group size
\* queries one of the defaults (8, 16, 32) without dereferencing the queue.
C11_NullQueueDefaults ==
    (pc /= "call" /\ call.fn /= "reduComputeWGSize" /\ call.Queue = << >>) =>
        /\ pc = "done"
        /\ call.fn = "reduGetPreferredWGSize" => ret = NullQueueWGSize
        /\ call.fn = "reduGetMaxNumConcurrentWorkGroups" =>
               ret = NullQueueNumWorkGroups
        /\ call.fn \in {"reduGetMaxWGSize", "reduGetMaxWGSizeKernel"} =>
               ret \in {NullQueueNumWorkGroups, CPUDefaultWGSize,
                        NullQueueWGSize}

(***************************************************************************)
(* Properties of the kernel overload of reduGetMaxWGSize.                  *)
(***************************************************************************)
GetMaxKernelDone ==
    pc = "done" /\ call.fn = "reduGetMaxWGSizeKernel" /\ call.Queue /= << >>

\* C12: the kernel-specific query returns the work_group_size the kernel
\* reports when that is non-zero; when it is 0 it returns what the
\* device-level computeMaxWorkGroupSize returns for the same queue and
\* localMemoryBytesPerWorkItem, and it is that query which ran.
C12_KernelQueryFallback ==
    GetMaxKernelDone =>
        IF call.KernelWGSize /= 0
        THEN ret = call.KernelWGSize
        ELSE /\ ret = reduGetMaxWGSize(call.Queue[1],
                                       call.LocalMemBytesPerWorkItem)
             /\ cout[2] = <<"GetMaxWGSize from device query.">>
             /\ \A i \in 1..Len(cout) :
                    cout[i] /= <<"reduGetPreferredWGSize check">>

\* a finished fallback on a CPU device, where the preferred-size query
\* would have answered 16
C12_Witness ==
    /\ GetMaxKernelDone
    /\ call.KernelWGSize = 0
    /\ call.Queue[1].device_type = "cpu"
    /\ call.LocalMemBytesPerWorkItem = 0
    /\ ret = call.Queue[1].max_work_group_size
    /\ ret /= CPUDefaultWGSize

(***************************************************************************)
(* Preferred size of GPU, accelerator and other devices.                   *)
(***************************************************************************)
\* C13: a GPU or accelerator with a non-zero override for its own class
\* gets min(override, deviceMaxWorkGroupSize); every other non-CPU device
\* (class custom, no override, or an override for another class only) gets
\* exactly computeMaxWorkGroupSize(queue, localMemoryBytesPerWorkItem).
C13_OverrideOrMax ==
    (GetPreferredDone /\ call.Queue /= << >>
                      /\ call.Queue[1].device_type /= "cpu") =>
        LET Dev == call.Queue[1]
        IN  IF Dev.device_type = "gpu" /\ call.Config.gpu /= 0
            THEN ret = Min(call.Config.gpu, Dev.max_work_group_size)
            ELSE IF Dev.device_type = "accelerator"
                    /\ call.Config.accelerator /= 0
                 THEN ret = Min(call.Config.accelerator,
                                Dev.max_work_group_size)
                 ELSE /\ ret = reduGetMaxWGSize(Dev,
                                                call.LocalMemBytesPerWorkItem)
                      /\ Len(cout) >= 2
                      /\ cout[2] = <<"GetMaxWGSize from device query.">>

\* a finished call on a GPU for which only the accelerator override is set
\* and is smaller than the size returned
C13_Witness ==
    /\ GetPreferredDone
    /\ call.Queue /= << >>
    /\ call.Queue[1].device_type = "gpu"
    /\ call.Config.gpu = 0
    /\ call.Config.accelerator /= 0
    /\ call.LocalMemBytesPerWorkItem = 0
    /\ ret = call.Queue[1].max_work_group_size
    /\ ret > call.Config.accelerator

(***************************************************************************)
(* Empty groups and the register clamp.                                    *)
(***************************************************************************)
\* C17: computeWorkGroupSize allocates no wholly empty group: for
\* workItems > 0 and maxWorkGroupSize > 0 the surplus workGroupSize *
\* workGroupCount - workItems is less than workGroupSize, and it is 0 in
\* every case but the non-uniform branch (remainder != 0, alternative
\* rejected).
C17_NoEmptyGroup ==
    (ComputeDone /\ call.NWorkItems > 0 /\ call.MaxWGSize > 0) =>
        /\ ret * NWorkGroups - call.NWorkItems < ret
        /\ ~(/\ call.NWorkItems > call.MaxWGSize
              /\ CallRem /= 0
              /\ ~AltAdopted) =>
               ret * NWorkGroups = call.NWorkItems

\* a finished call of the non-uniform branch whose last group holds a
\* single work-item: the surplus is one less than the group size
C17_Witness ==
    /\ ComputeDone
    /\ call.NWorkItems > call.MaxWGSize
    /\ CallRem = 1
    /\ ~AltAdopted
    /\ ret * NWorkGroups - call.NWorkItems = ret - 1
    /\ ret > 1

\* the register clamp loop decrements its candidate at 0 (and so wraps)
RECURSIVE RegsClampWraps(_, _)
RegsClampWraps(NewWGSize, MaxRegsPerWG) ==
    /\ \/ SizeT(NewWGSize * MaxRegsPerWI) > MaxRegsPerWG
       \/ ~IsPowerOfTwo(NewWGSize)
    /\ \/ NewWGSize = 0
       \/ RegsClampWraps(NewWGSize - 1, MaxRegsPerWG)

\* C18: the register clamp loop ends for every starting candidate and
\* every maxRegistersPerGroup (below 255 and a start of 0 included), the
\* candidate never wraps below 0, and the clamped candidate, which the
\* function prints, is a power of two >= 1.
C18_ClampEndsAtPowerOfTwo ==
    (GetMaxDone /\ call.Queue[1].backend = "ext_oneapi_cuda") =>
        /\ Len(cout) = 3
        /\ ~RegsClampWraps(cout[2][2],
                           call.Queue[1].max_registers_per_work_group)
        /\ IsPow2(cout[3][2])
        /\ cout[3][2] >= 1

(***************************************************************************)
(* The coarse-grained coherency test: main and its two kernels.  Host and  *)
(* device steps on the shared int interleave; the host's '*ptr += 1' is a  *)
(* plain load followed by a plain store.                                   *)
(***************************************************************************)
\* the spin loop gives up after 3 seconds
WaitSeconds == 3

\* the planner is not called by the test
PlannerNotCalled ==
    /\ pc = "none"
    /\ call = [fn |-> "none"]
    /\ ret = 0
    /\ NWorkGroups = 0

CoherencyInit ==
    /\ PlannerNotCalled
    /\ TargetDefinesNotCalled
    /\ cout = << >>
    /\ usmShared \in BOOLEAN
    /\ ptr = 0
    /\ hostPc = "start"
    /\ krnlPc = "none"
    /\ val = 0
    /\ hostTmp = 0
    /\ elapsed = 0
    /\ coherent = FALSE
    /\ expected = 0

\* the failed compare_exchange_strong leaves 'expected' as it was
CompareExchangeStrong_NoReload(object, expectedValue, desired) ==
    IF object = expectedValue
    THEN [success |-> TRUE, object |-> desired, expected |-> expectedValue]
    ELSE [success |-> FALSE, object |-> object, expected |-> expectedValue]

\* atm.compare_exchange_strong(expected, desired): on failure 'expected'
\* receives the value observed
CompareExchangeStrong(object, expectedValue, desired) ==
    IF object = expectedValue
    THEN [success |-> TRUE, object |-> desired, expected |-> expectedValue]
    ELSE [success |-> FALSE, object |-> object, expected |-> object]

\* main up to the submission of SquareKrnl, or the early return
HostStart ==
    /\ hostPc = "start"
    /\ IF ~usmShared
       THEN /\ cout' = cout \o
                   << <<"Shared USM is not supported. Skipping test.">> >>
            /\ hostPc' = "returned"
            /\ UNCHANGED <<ptr, krnlPc, coherent, expected>>
       ELSE /\ coherent' = FALSE
            /\ expected' = 9 * 9
            /\ ptr' = 9
            /\ krnlPc' = "square"
            /\ hostPc' = "wait1"
            /\ UNCHANGED cout
    /\ UNCHANGED <<plannerVars, nvptxVars, usmShared, val, hostTmp, elapsed>>

\* SquareKrnl: *mPtr = (*mPtr) * (*mPtr); the host is in q.wait()
KrnlSquare ==
    /\ krnlPc = "square"
    /\ ptr' = ptr * ptr
    /\ krnlPc' = "square_done"
    /\ UNCHANGED <<plannerVars, nvptxVars, cout, usmShared, hostPc, val, hostTmp,
                   elapsed, coherent, expected>>

\* q.wait() of TEST 1 returns, the value is printed and checked
HostWait1 ==
    /\ hostPc = "wait1"
    /\ krnlPc = "square_done"
    /\ IF ptr = expected
       THEN /\ coherent' = TRUE
            /\ cout' = cout \o << <<"", ptr>> >>
       ELSE /\ coherent' = coherent
            /\ cout' = cout \o
                   << <<"", ptr>>,
                      <<"Coarse-grained mode coherency failed. Value = ",
                        ptr>> >>
    /\ hostPc' = "test2"
    /\ UNCHANGED <<plannerVars, nvptxVars, usmShared, ptr, krnlPc, val, hostTmp,
                   elapsed, expected>>

\* number = 1; expected = 4; *ptr = number; submit CoherencyTestKrnl; start
HostSubmit2 ==
    /\ hostPc = "test2"
    /\ expected' = 4
    /\ ptr' = 1
    /\ krnlPc' = "fetch_add"
    /\ elapsed' = 0
    /\ hostPc' = "spin"
    /\ UNCHANGED <<plannerVars, nvptxVars, cout, usmShared, val, hostTmp, coherent>>

\* steady_clock advances while main is in the spin loop
Tick ==
    /\ hostPc = "spin"
    /\ elapsed < WaitSeconds
    /\ elapsed' = elapsed + 1
    /\ UNCHANGED <<plannerVars, nvptxVars, cout, usmShared, ptr, hostPc, krnlPc, val,
                   hostTmp, coherent, expected>>

\* one evaluation of 'while (elapsed < 3 && *ptr == 2) {}'
HostSpin ==
    /\ hostPc = "spin"
    /\ hostPc' = IF elapsed < WaitSeconds /\ ptr = 2
                 THEN "spin"
                 ELSE "increment_load"
    /\ UNCHANGED <<plannerVars, nvptxVars, cout, usmShared, ptr, krnlPc, val, hostTmp,
                   elapsed, coherent, expected>>

\* '*ptr += 1;': the load
HostIncrementLoad ==
    /\ hostPc = "increment_load"
    /\ hostTmp' = ptr
    /\ hostPc' = "increment_store"
    /\ UNCHANGED <<plannerVars, nvptxVars, cout, usmShared, ptr, krnlPc, val, elapsed,
                   coherent, expected>>

\* '*ptr += 1;': the store
HostIncrementStore ==
    /\ hostPc = "increment_store"
    /\ ptr' = hostTmp + 1
    /\ hostPc' = "wait2"
    /\ UNCHANGED <<plannerVars, nvptxVars, cout, usmShared, krnlPc, val, hostTmp,
                   elapsed, coherent, expected>>

\* CoherencyTestKrnl: atm.fetch_add(2); int val = 3;
KrnlFetchAdd ==
    /\ krnlPc = "fetch_add"
    /\ ptr' = ptr + 2
    /\ val' = 3
    /\ krnlPc' = "cas"
    /\ UNCHANGED <<plannerVars, nvptxVars, cout, usmShared, hostPc, hostTmp, elapsed,
                   coherent, expected>>

\* CoherencyTestKrnl: one iteration of the compare_exchange_strong loop
KrnlCompareExchange ==
    /\ krnlPc = "cas"
    /\ LET r == CompareExchangeStrong(ptr, val, val + 1)
       IN  /\ ptr' = r.object
           /\ val' = r.expected
           /\ krnlPc' = IF r.success THEN "done" ELSE "cas"
    /\ UNCHANGED <<plannerVars, nvptxVars, cout, usmShared, hostPc, hostTmp, elapsed,
                   coherent, expected>>

\* q.wait() of TEST 2 returns, the value is printed and checked
HostWait2 ==
    /\ hostPc = "wait2"
    /\ krnlPc = "done"
    /\ cout' = cout \o
           (IF ptr = expected
            THEN << <<"", ptr>> >>
            ELSE << <<"", ptr>>,
                    <<"[CoherencyTestKrnl] Coarse-grained mode coherency failed. Value = ",
                      ptr>> >>)
    /\ hostPc' = "check"
    /\ UNCHANGED <<plannerVars, nvptxVars, usmShared, ptr, krnlPc, val, hostTmp,
                   elapsed, coherent, expected>>

\* sycl::free; assert(coherent && ...); return 0;
HostCheck ==
    /\ hostPc = "check"
    /\ hostPc' \in IF coherent THEN {"returned"} ELSE {"aborted", "returned"}
    /\ UNCHANGED <<plannerVars, nvptxVars, cout, usmShared, ptr, krnlPc, val, hostTmp,
                   elapsed, coherent, expected>>

HostStep ==
    \/ HostStart
    \/ HostWait1
    \/ HostSubmit2
    \/ HostSpin
    \/ HostIncrementLoad
    \/ HostIncrementStore
    \/ HostWait2
    \/ HostCheck

KrnlStep ==
    \/ KrnlSquare
    \/ KrnlFetchAdd
    \/ KrnlCompareExchange

CoherencyNext ==
    \/ HostStep
    \/ KrnlStep
    \/ Tick

CoherencySpec == CoherencyInit /\ [][CoherencyNext]_vars

\* the host thread runs, the device executes what was submitted, time passes
CoherencyFairSpec ==
    /\ CoherencySpec
    /\ WF_vars(HostStep)
    /\ WF_vars(KrnlStep)
    /\ WF_vars(Tick)

(***************************************************************************)
(* Properties of the coherency test.                                       *)
(***************************************************************************)
\* C14: in TEST 2 the value the host reads after q.wait() is the expected
\* 4 in every interleaving of host and kernel steps.
C14_Test2ReadsExpected ==
    (hostPc \in {"check", "returned", "aborted"} /\ usmShared) =>
        (expected = 4 /\ ptr = 4)

\* C15: CoherencyTestKrnl always terminates: whatever the interleaving with
\* the host's single increment, its compare_exchange_strong loop succeeds
\* at last and the host's q.wait() returns.
C15_KernelTerminates ==
    /\ (krnlPc = "fetch_add") ~> (krnlPc = "done")
    /\ (hostPc = "wait2") ~> (hostPc = "check")

\* the kernel has finished after a failed compare_exchange_strong reloaded
\* val, and q.wait() has returned
C15_Witness ==
    /\ krnlPc = "done"
    /\ val /= 3
    /\ hostPc = "check"

(***************************************************************************)
(* NVPTXTargetInfo::getTargetDefines(Opts, Builder).                       *)
(***************************************************************************)
\* the CudaArch values whose case only breaks out of the switch, into
\* llvm_unreachable
UnhandledArchs ==
    {"GFX600", "GFX601", "GFX602", "GFX700", "GFX701", "GFX702", "GFX703",
     "GFX704", "GFX705", "GFX801", "GFX802", "GFX803", "GFX805", "GFX810",
     "GFX900", "GFX902", "GFX904", "GFX906", "GFX908", "GFX909", "GFX90a",
     "GFX90c", "GFX940", "GFX941", "GFX942", "GFX1010", "GFX1011",
     "GFX1012", "GFX1013", "GFX1030", "GFX1031", "GFX1032", "GFX1033",
     "GFX1034", "GFX1035", "GFX1036", "GFX1100", "GFX1101", "GFX1102",
     "GFX1103", "GFX1150", "GFX1151", "GFX1200", "GFX1201", "Generic",
     "LAST"}

\* the CudaArch values that assert(false) and return ""
NoArchs == {"UNUSED", "UNKNOWN"}

\* the CudaArch values with an architecture code
SMArchs ==
    {"SM_20", "SM_21", "SM_30", "SM_32", "SM_35", "SM_37", "SM_50",
     "SM_52", "SM_53", "SM_60", "SM_61", "SM_62", "SM_70", "SM_72",
     "SM_75", "SM_80", "SM_86", "SM_87", "SM_89", "SM_90", "SM_90a"}

CudaArchs == UnhandledArchs \cup NoArchs \cup SMArchs

\* the string the switch returns for an SM_xx GPU
SMArchCode(a) ==
    CASE a = "SM_20" -> "200"
      [] a = "SM_21" -> "210"
      [] a = "SM_30" -> "300"
      [] a = "SM_32" -> "320"
      [] a = "SM_35" -> "350"
      [] a = "SM_37" -> "370"
      [] a = "SM_50" -> "500"
      [] a = "SM_52" -> "520"
      [] a = "SM_53" -> "530"
      [] a = "SM_60" -> "600"
      [] a = "SM_61" -> "610"
      [] a = "SM_62" -> "620"
      [] a = "SM_70" -> "700"
      [] a = "SM_72" -> "720"
      [] a = "SM_75" -> "750"
      [] a = "SM_80" -> "800"
      [] a = "SM_86" -> "860"
      [] a = "SM_87" -> "870"
      [] a = "SM_89" -> "890"
      [] a = "SM_90" -> "900"
      [] a = "SM_90a" -> "900"

\* the outcomes of the lambda computing CUDAArchCode: a code, or "abort"
\* where an assertion or llvm_unreachable ends the process.  Without
\* assertions UNUSED and UNKNOWN give "", and llvm_unreachable is undefined
\* behaviour, which may hand back any string of the switch.
CUDAArchCodeOutcomes(a) ==
    IF a \in SMArchs THEN {SMArchCode(a)}
    ELSE IF a \in NoArchs THEN {"abort", ""}
    ELSE {"abort", ""} \cup {SMArchCode(b) : b \in SMArchs}

\* 'Opts.CUDAIsDevice || Opts.OpenMPIsTargetDevice || Opts.SYCLIsDevice ||
\* !HostTarget'
CompilesForDevice(opts, hostTarget) ==
    \/ opts.CUDAIsDevice
    \/ opts.OpenMPIsTargetDevice
    \/ opts.SYCLIsDevice
    \/ ~hostTarget

\* the macro the if / else-if / else chain defines for the code
ArchMacros(opts, gpu, CUDAArchCode) ==
    IF opts.SYCLIsDevice
    THEN << <<"__SYCL_CUDA_ARCH__", CUDAArchCode>> >>
    ELSE IF gpu = "SM_90a"
         THEN << <<"__CUDA_ARCH_FEAT_SM90_ALL", "1">> >>
         ELSE << <<"__CUDA_ARCH__", CUDAArchCode>> >>

TargetDefinesInit ==
    /\ PlannerNotCalled
    /\ cout = << >>
    /\ TestNotRunning
    /\ Opts \in [CUDAIsDevice : BOOLEAN, OpenMPIsTargetDevice : BOOLEAN,
                  SYCLIsDevice : BOOLEAN]
    /\ HostTarget \in BOOLEAN
    /\ GPU \in CudaArchs
    /\ Builder = << >>
    /\ definesPc = "call"

GetTargetDefines ==
    /\ definesPc = "call"
    /\ LET Base == << <<"__PTX__", "1">>, <<"__NVPTX__", "1">> >>
       IN  IF CompilesForDevice(Opts, HostTarget)
           THEN \E code \in CUDAArchCodeOutcomes(GPU) :
                   IF code = "abort"
                   THEN /\ Builder' = Builder \o Base
                        /\ definesPc' = "aborted"
                   ELSE /\ Builder' =
                               Builder \o Base \o ArchMacros(Opts, GPU, code)
                        /\ definesPc' = "done"
           ELSE /\ Builder' = Builder \o Base
                /\ definesPc' = "done"
    /\ UNCHANGED <<plannerVars, cout, testVars, Opts, HostTarget, GPU>>

TargetDefinesNext == GetTargetDefines

TargetDefinesSpec == TargetDefinesInit /\ [][TargetDefinesNext]_vars

(***************************************************************************)
(* Properties of getTargetDefines.                                         *)
(***************************************************************************)
\* the MacroBuilder has been given the macro with this value
Defines(name, value) ==
    \E i \in 1..Len(Builder) : Builder[i] = <<name, value>>

\* C16: getTargetDefines always defines __PTX__ and __NVPTX__, and when it
\* compiles for a device with an SM_xx GPU it defines the architecture
\* macro with the GPU's code: __SYCL_CUDA_ARCH__ for SYCL device
\* compilation and __CUDA_ARCH__ otherwise (SM_90 and SM_90a give 900).
C16_ArchMacroDefined ==
    definesPc \in {"done", "aborted"} =>
        /\ Defines("__PTX__", "1")
        /\ Defines("__NVPTX__", "1")
        /\ (CompilesForDevice(Opts, HostTarget) /\ GPU \in SMArchs) =>
               Defines(IF Opts.SYCLIsDevice
                       THEN "__SYCL_CUDA_ARCH__"
                       ELSE "__CUDA_ARCH__",
                       IF GPU \in {"SM_90", "SM_90a"}
                       THEN "900"
                       ELSE SMArchCode(GPU))

====
